---- MODULE Spec2Model ----
(***************************************************************************)
(* Model of the DMAppex 3AI-MCP backend (src/app.py): the POST             *)
(* /api/calculate-matches handler and the two helpers it calls,            *)
(* calculate_platform_score and generate_reasoning.                        *)
(*                                                                         *)
(* random.randint(-3, 3) is a nondeterministic choice; the value drawn is  *)
(* passed to calculate_platform_score as its third argument.               *)
(***************************************************************************)
EXTENDS Integers, Sequences, FiniteSets, TLC

(***************************************************************************)
(* Bounds of the exploration.                                              *)
(***************************************************************************)
\* Spec: at most this many of a request's variance draws are non-zero.
MaxJittered == 1
\* SpecScenario: the same, for the two scenario requests explored in depth.
MaxScenarioJittered == 2

(***************************************************************************)
(* Program constants.                                                      *)
(***************************************************************************)
BASE_SCORE == 75
BUDGET_BONUS == 10
USE_CASE_BONUS == 8
TEAM_BONUS == 5
VOLUME_BONUS == 5
VARIANCE_MAX == 3
SCORE_MIN == 60
SCORE_MAX == 98
TOP_N == 3
MID_TIER_SHARE == 2
ENTERPRISE_SHARE == 2
CONSENSUS_THRESHOLD == 90
OVERALL_CONFIDENCE == 95

PLATFORMS ==
    [enterprise  |-> <<"Synthesia", "HeyGen", "Colossyan", "Hour One", "D-ID">>,
     mid_tier    |-> <<"Pictory", "InVideo", "Elai", "Rephrase", "Yepic">>,
     budget      |-> <<"Fliki", "Vidnoz", "Steve.ai", "VEED", "Lumen5">>,
     specialized |-> <<"Movio", "DeepBrain", "Avaturn", "Oxolo", "Pipio">>]

MARKETING_PLATFORMS == <<"Synthesia", "Pictory", "InVideo", "Promo">>
TRAINING_PLATFORMS == <<"Colossyan", "Hour One", "Elai", "DeepBrain">>
SOCIAL_PLATFORMS == <<"Fliki", "Steve.ai", "VEED", "Lumen5">>

(***************************************************************************)
(* Python list primitives.                                                 *)
(***************************************************************************)
\* x in lst
In(x, lst) == \E i \in 1..Len(lst) : lst[i] = x

\* lst[:n]
Slice(lst, n) == SubSeq(lst, 1, IF n < Len(lst) THEN n ELSE Len(lst))

Min2(a, b) == IF a < b THEN a ELSE b
Max2(a, b) == IF a > b THEN a ELSE b

\* sep.join(parts)
RECURSIVE Join(_, _)
Join(sep, parts) ==
    IF Len(parts) = 0 THEN ""
    ELSE IF Len(parts) = 1 THEN parts[1]
    ELSE parts[1] \o sep \o Join(sep, Tail(parts))

(***************************************************************************)
(* The values a MatchRequest is drawn from: every value the code compares  *)
(* a field against, and one it does not recognise.                         *)
(***************************************************************************)
Budgets == {"budget_friendly", "professional", "enterprise", ""}
UseCases == {"marketing", "training", "social", "other"}
TeamSizes == {"just_me", "large_team", "small_team"}
Volumes == {"1-10", "50+", "11-50"}
FeatureLists == {<<>>, <<"avatars", "voice_cloning">>}
PriorityMaps == {[quality |-> 0], [quality |-> 9]}

MatchRequest(f, b, p, u, t, v) ==
    [features |-> f, budget |-> b, priorities |-> p,
     use_case |-> u, team_size |-> t, monthly_volume |-> v]

Requests ==
    {MatchRequest(f, b, p, u, t, v) :
        f \in FeatureLists, b \in Budgets, p \in PriorityMaps,
        u \in UseCases, t \in TeamSizes, v \in Volumes}

\* The requests the handler is explored with: every budget, use case, team
\* size and volume, with features and a non-zero priority weight.  The other
\* features and priorities of Requests enter where they are compared (C8).
HandlerRequests ==
    {r \in Requests : r.features # <<>> /\ r.priorities.quality # 0}

\* A variance range one wider on each side.
VariancesWide == (0 - VARIANCE_MAX - 1)..(VARIANCE_MAX + 1)

Variances == (0 - VARIANCE_MAX)..VARIANCE_MAX

(***************************************************************************)
(* calculate_platform_score                                                *)
(***************************************************************************)
BudgetAlignment(platform, request) ==
    IF request.budget = "budget_friendly" /\ In(platform, PLATFORMS.budget)
    THEN BUDGET_BONUS
    ELSE IF request.budget = "professional" /\ In(platform, PLATFORMS.mid_tier)
    THEN BUDGET_BONUS
    ELSE IF request.budget = "enterprise" /\ In(platform, PLATFORMS.enterprise)
    THEN BUDGET_BONUS
    ELSE 0

UseCaseAlignment(platform, request) ==
    IF request.use_case = "marketing"
    THEN (IF In(platform, MARKETING_PLATFORMS) THEN USE_CASE_BONUS ELSE 0)
    ELSE IF request.use_case = "training"
    THEN (IF In(platform, TRAINING_PLATFORMS) THEN USE_CASE_BONUS ELSE 0)
    ELSE IF request.use_case = "social"
    THEN (IF In(platform, SOCIAL_PLATFORMS) THEN USE_CASE_BONUS ELSE 0)
    ELSE 0

TeamSizeConsideration(platform, request) ==
    IF request.team_size = "large_team" /\ In(platform, PLATFORMS.enterprise)
    THEN TEAM_BONUS
    ELSE IF request.team_size = "just_me" /\ In(platform, PLATFORMS.budget)
    THEN TEAM_BONUS
    ELSE 0

\* Volume bonus whose enterprise branch is missing.
VolumeRequirementsBudgetOnly(platform, request) ==
    IF request.monthly_volume = "1-10" /\ In(platform, PLATFORMS.budget)
    THEN VOLUME_BONUS
    ELSE 0

VolumeRequirements(platform, request) ==
    IF request.monthly_volume = "50+" /\ In(platform, PLATFORMS.enterprise)
    THEN VOLUME_BONUS
    ELSE IF request.monthly_volume = "1-10" /\ In(platform, PLATFORMS.budget)
    THEN VOLUME_BONUS
    ELSE 0

\* A base score that also consults the request's priorities.
base_score_with_priorities(platform, request) ==
    BASE_SCORE + BudgetAlignment(platform, request)
               + UseCaseAlignment(platform, request)
               + TeamSizeConsideration(platform, request)
               + VolumeRequirements(platform, request)
               + (IF request.priorities.quality > 0 THEN 1 ELSE 0)

\* base_score just before the variance is added
base_score(platform, request) ==
    BASE_SCORE + BudgetAlignment(platform, request)
               + UseCaseAlignment(platform, request)
               + TeamSizeConsideration(platform, request)
               + VolumeRequirements(platform, request)

\* Clamp without its ceiling.
ClampNoCeiling(v) == Max2(SCORE_MIN, v)

\* min(98, max(60, v))
Clamp(v) == Min2(SCORE_MAX, Max2(SCORE_MIN, v))

\* The clamp applied before the variance instead of after it.
score_clamped_before_variance(platform, request, variance) ==
    Clamp(base_score(platform, request)) + variance

calculate_platform_score(platform, request, variance) ==
    Clamp(base_score(platform, request) + variance)

(***************************************************************************)
(* generate_reasoning                                                      *)
(***************************************************************************)
TierReasons(platform) ==
    IF In(platform, PLATFORMS.enterprise)
    THEN <<"Enterprise-grade features with full team collaboration">>
    ELSE IF In(platform, PLATFORMS.mid_tier)
    THEN <<"Balanced features and pricing for growing teams">>
    ELSE IF In(platform, PLATFORMS.budget)
    THEN <<"Cost-effective solution for individual creators">>
    ELSE <<>>

UseCaseReasons(request) ==
    IF request.use_case = "marketing"
    THEN <<"Strong marketing video capabilities">>
    ELSE IF request.use_case = "training"
    THEN <<"Excellent for educational and training content">>
    ELSE IF request.use_case = "social"
    THEN <<"Optimized for social media content creation">>
    ELSE <<>>

VolumeReasons(request) ==
    IF request.monthly_volume = "50+"
    THEN <<"Handles high-volume production efficiently">>
    ELSE <<>>

\* The use-case fragment put ahead of the tier fragment.
generate_reasoning_use_case_first(platform, request) ==
    Join(". ", UseCaseReasons(request) \o TierReasons(platform) \o VolumeReasons(request))

generate_reasoning(platform, request) ==
    Join(". ", TierReasons(platform) \o UseCaseReasons(request) \o VolumeReasons(request))

(***************************************************************************)
(* calculate_matches, step by step                                         *)
(***************************************************************************)
SelectPool(request) ==
    IF request.budget = "budget_friendly"
    THEN PLATFORMS.budget \o Slice(PLATFORMS.mid_tier, MID_TIER_SHARE)
    ELSE IF request.budget = "professional"
    THEN PLATFORMS.mid_tier \o Slice(PLATFORMS.enterprise, ENTERPRISE_SHARE)
    ELSE PLATFORMS.enterprise \o PLATFORMS.specialized

ScoredEntry(platform, request, variance) ==
    [name |-> platform,
     match_score |-> calculate_platform_score(platform, request, variance),
     reasoning |-> generate_reasoning(platform, request)]

\* An insertion that puts e ahead of entries of equal score (not stable).
RECURSIVE InsertDescUnstable(_, _)
InsertDescUnstable(e, sorted) ==
    IF Len(sorted) = 0 THEN <<e>>
    ELSE IF Head(sorted).match_score > e.match_score
    THEN <<Head(sorted)>> \o InsertDescUnstable(e, Tail(sorted))
    ELSE <<e>> \o sorted

\* One step of the stable descending sort: e goes after every entry whose
\* score is at least its own.
RECURSIVE InsertDesc(_, _)
InsertDesc(e, sorted) ==
    IF Len(sorted) = 0 THEN <<e>>
    ELSE IF Head(sorted).match_score >= e.match_score
    THEN <<Head(sorted)>> \o InsertDesc(e, Tail(sorted))
    ELSE <<e>> \o sorted

\* list.sort(key=lambda x: x["match_score"], reverse=True)
RECURSIVE SortDesc(_)
SortDesc(lst) ==
    IF Len(lst) = 0 THEN <<>>
    ELSE InsertDesc(lst[Len(lst)], SortDesc(SubSeq(lst, 1, Len(lst) - 1)))

\* A threshold that includes 90.
ConsensusLabelInclusive(score) ==
    IF score >= CONSENSUS_THRESHOLD THEN "3/3 AIs recommend" ELSE "2/3 AIs recommend"

ConsensusLabel(score) ==
    IF score > CONSENSUS_THRESHOLD THEN "3/3 AIs recommend" ELSE "2/3 AIs recommend"

AddConsensus(entry) ==
    [name |-> entry.name, match_score |-> entry.match_score,
     reasoning |-> entry.reasoning,
     ai_consensus |-> ConsensusLabel(entry.match_score)]

\* A body that counts the returned entries instead of the pool.
MatchResponseCountsReturned(top, pool) ==
    [platforms |-> top,
     overall_confidence |-> OVERALL_CONFIDENCE,
     total_evaluated |-> Len(top),
     synthesis_method |-> "3AI-MCP"]

MatchResponse(top, pool) ==
    [platforms |-> top,
     overall_confidence |-> OVERALL_CONFIDENCE,
     total_evaluated |-> Len(pool),
     synthesis_method |-> "3AI-MCP"]

\* The scoring loop over the whole pool, ds[i] being the i-th variance drawn.
ScoreAll(pool, request, ds) ==
    [i \in 1..Len(pool) |-> ScoredEntry(pool[i], request, ds[i])]

\* The handler from request to body, given the variances it draws.
calculate_matches(request, ds) ==
    LET pool == SelectPool(request)
        top == Slice(SortDesc(ScoreAll(pool, request, ds)), TOP_N)
    IN  MatchResponse([i \in 1..Len(top) |-> AddConsensus(top[i])], pool)

(***************************************************************************)
(* State.                                                                  *)
(***************************************************************************)
VARIABLES
    pc,               \* position of the handler
    request,          \* the MatchRequest being served
    platform_pool,    \* calculate_matches: platform_pool
    scored_platforms, \* calculate_matches: scored_platforms
    draws,            \* the variance drawn for each entry of scored_platforms
    top_3,            \* calculate_matches: top_3
    response,         \* the returned body
    arg,              \* SpecScore: platform and variance of one scoring call
    ret               \* SpecScore: what the call returned

vars == <<pc, request, platform_pool, scored_platforms, draws, top_3, response, arg, ret>>

NoRequest == MatchRequest(<<>>, "", [quality |-> 0], "", "", "")
NoResponse == MatchResponse(<<>>, <<>>)
NoArg == [platform |-> "", variance |-> 0]
NoRet == [score |-> 0, returned |-> FALSE]

Init ==
    /\ pc = "idle"
    /\ request = NoRequest
    /\ platform_pool = <<>>
    /\ scored_platforms = <<>>
    /\ draws = <<>>
    /\ top_3 = <<>>
    /\ response = NoResponse
    /\ arg = NoArg
    /\ ret = NoRet

Jittered(ds) == Cardinality({i \in 1..Len(ds) : ds[i] # 0})

\* POST /api/calculate-matches arrives and the pool is chosen from the budget.
Receive(reqs) ==
    /\ pc = "idle"
    /\ \E r \in reqs :
        /\ request' = r
        /\ platform_pool' = SelectPool(r)
    /\ scored_platforms' = <<>>
    /\ draws' = <<>>
    /\ top_3' = <<>>
    /\ response' = NoResponse
    /\ pc' = "score"
    /\ UNCHANGED <<arg, ret>>

\* One iteration of the scoring loop.
ScorePlatform(maxJittered) ==
    /\ pc = "score"
    /\ Len(scored_platforms) < Len(platform_pool)
    /\ \E variance \in Variances :
        /\ variance # 0 => Jittered(draws) < maxJittered
        /\ scored_platforms' = Append(scored_platforms,
               ScoredEntry(platform_pool[Len(scored_platforms) + 1], request, variance))
        /\ draws' = Append(draws, variance)
    /\ UNCHANGED <<pc, request, platform_pool, top_3, response, arg, ret>>

\* The loop is over: sort in place and slice the first three.
SortAndTake ==
    /\ pc = "score"
    /\ Len(scored_platforms) = Len(platform_pool)
    /\ scored_platforms' = SortDesc(scored_platforms)
    /\ top_3' = Slice(SortDesc(scored_platforms), TOP_N)
    /\ pc' = "consensus"
    /\ UNCHANGED <<request, platform_pool, draws, response, arg, ret>>

\* Label the entries of top_3 (which are the first entries of
\* scored_platforms, the same dict objects) and return the body.
Return ==
    /\ pc = "consensus"
    /\ top_3' = [i \in 1..Len(top_3) |-> AddConsensus(top_3[i])]
    /\ scored_platforms' =
           [i \in 1..Len(scored_platforms) |->
               IF i <= Len(top_3) THEN AddConsensus(scored_platforms[i])
               ELSE scored_platforms[i]]
    /\ response' = MatchResponse([i \in 1..Len(top_3) |-> AddConsensus(top_3[i])],
                                 platform_pool)
    /\ pc' = "done"
    /\ UNCHANGED <<request, platform_pool, draws, arg, ret>>

\* The handler keeps nothing between requests.
NextRequest ==
    /\ pc = "done"
    /\ pc' = "idle"
    /\ request' = NoRequest
    /\ platform_pool' = <<>>
    /\ scored_platforms' = <<>>
    /\ draws' = <<>>
    /\ top_3' = <<>>
    /\ response' = NoResponse
    /\ UNCHANGED <<arg, ret>>

Next ==
    \/ Receive(HandlerRequests)
    \/ ScorePlatform(MaxJittered)
    \/ SortAndTake
    \/ Return
    \/ NextRequest

Spec == Init /\ [][Next]_vars

(***************************************************************************)
(* The two worked scenarios, explored with more variance draws.            *)
(***************************************************************************)
SocialScenario(r) ==
    /\ r.budget = "budget_friendly"
    /\ r.use_case = "social"
    /\ r.team_size = "just_me"
    /\ r.monthly_volume = "1-10"

TrainingScenario(r) ==
    /\ r.budget = "enterprise"
    /\ r.use_case = "training"
    /\ r.team_size = "large_team"
    /\ r.monthly_volume = "50+"

ScenarioRequests == {r \in Requests : SocialScenario(r) \/ TrainingScenario(r)}

NextScenario ==
    \/ Receive(ScenarioRequests)
    \/ ScorePlatform(MaxScenarioJittered)
    \/ SortAndTake
    \/ Return
    \/ NextRequest

SpecScenario == Init /\ [][NextScenario]_vars

(***************************************************************************)
(* calculate_platform_score on its own: every request, every platform name *)
(* the code mentions, every variance.                                      *)
(***************************************************************************)
PlatformNames ==
    {PLATFORMS.enterprise[i] : i \in 1..Len(PLATFORMS.enterprise)}
    \cup {PLATFORMS.mid_tier[i] : i \in 1..Len(PLATFORMS.mid_tier)}
    \cup {PLATFORMS.budget[i] : i \in 1..Len(PLATFORMS.budget)}
    \cup {PLATFORMS.specialized[i] : i \in 1..Len(PLATFORMS.specialized)}
    \cup {MARKETING_PLATFORMS[i] : i \in 1..Len(MARKETING_PLATFORMS)}

InitScore ==
    /\ pc = "call"
    /\ request \in Requests
    /\ arg \in [platform : PlatformNames, variance : Variances]
    /\ ret = NoRet
    /\ platform_pool = <<>>
    /\ scored_platforms = <<>>
    /\ draws = <<>>
    /\ top_3 = <<>>
    /\ response = NoResponse

CallScore ==
    /\ pc = "call"
    /\ ret' = [score |-> calculate_platform_score(arg.platform, request, arg.variance),
               returned |-> TRUE]
    /\ pc' = "returned"
    /\ UNCHANGED <<request, platform_pool, scored_platforms, draws, top_3, response, arg>>

NextScore == CallScore

SpecScore == InitScore /\ [][NextScore]_vars

(***************************************************************************)
(* Properties.                                                             *)
(***************************************************************************)
Returned == response.platforms
ReturnedNames == {Returned[i].name : i \in 1..Len(Returned)}
PoolIndex(name) == CHOOSE k \in 1..Len(platform_pool) : platform_pool[k] = name
SortedIndex(name) == CHOOSE k \in 1..Len(scored_platforms) : scored_platforms[k].name = name
\* The score the loop computed for the k-th platform of the pool.
ScoreOf(k) == calculate_platform_score(platform_pool[k], request, draws[k])
ScoreOfName(name) == scored_platforms[SortedIndex(name)].match_score

\* C1: whatever the request and the variances drawn, the body holds between
\* 0 and 3 entries and every score, of a returned entry and of every other
\* platform of the pool, is an integer in 60..98.
C1_SizeAndScoreRange ==
    pc = "done" =>
        /\ Len(scored_platforms) = Len(platform_pool)
        /\ \A i \in 1..Len(scored_platforms) :
               /\ scored_platforms[i].match_score \in Int
               /\ scored_platforms[i].match_score >= 60
               /\ scored_platforms[i].match_score <= 98
        /\ Len(Returned) >= 0
        /\ Len(Returned) <= 3
        /\ \A i \in 1..Len(Returned) : Returned[i].match_score \in 60..98

\* A body of three entries, one of which the ceiling of the clamp cut to 98.
C1_Witness ==
    /\ pc = "done"
    /\ Len(Returned) = 3
    /\ \E i \in 1..Len(Returned) :
           /\ Returned[i].match_score = 98
           /\ base_score(Returned[i].name, request)
                  + draws[PoolIndex(Returned[i].name)] > 98

\* C2: the returned list is in non-increasing score order, entries of equal
\* score keep the order of their names in the pool, every returned score is
\* the one computed for that platform, and no platform left out scored
\* strictly higher than a returned one.
C2_SortedStableTop ==
    pc = "done" =>
        /\ \A i, j \in 1..Len(Returned) :
               i < j => Returned[i].match_score >= Returned[j].match_score
        /\ \A i, j \in 1..Len(Returned) :
               (i < j /\ Returned[i].match_score = Returned[j].match_score)
                   => PoolIndex(Returned[i].name) < PoolIndex(Returned[j].name)
        /\ \A i \in 1..Len(Returned) :
               /\ In(Returned[i].name, platform_pool)
               /\ Returned[i].match_score = ScoreOf(PoolIndex(Returned[i].name))
        /\ \A k \in 1..Len(platform_pool) :
               platform_pool[k] \notin ReturnedNames
                   => \A i \in 1..Len(Returned) : ScoreOf(k) <= Returned[i].match_score

\* A strict descent, a tie inside the list, and a tie cut by the truncation.
C2_Witness ==
    /\ pc = "done"
    /\ Len(Returned) = 3
    /\ Returned[1].match_score > Returned[2].match_score
    /\ Returned[2].match_score = Returned[3].match_score
    /\ \E k \in 1..Len(platform_pool) :
           /\ platform_pool[k] \notin ReturnedNames
           /\ ScoreOf(k) = Returned[3].match_score

\* C3: total_evaluated is the length of the pool the budget selects: 7 for
\* budget_friendly (budget tier, then Pictory and InVideo), 7 for
\* professional (mid tier, then Synthesia and HeyGen), 10 for every other
\* value (enterprise, then specialized), the empty string included.
C3_TotalEvaluated ==
    pc = "done" =>
        /\ response.total_evaluated = Len(platform_pool)
        /\ request.budget = "budget_friendly" =>
               /\ response.total_evaluated = 7
               /\ platform_pool = <<"Fliki", "Vidnoz", "Steve.ai", "VEED", "Lumen5",
                                    "Pictory", "InVideo">>
        /\ request.budget = "professional" =>
               /\ response.total_evaluated = 7
               /\ platform_pool = <<"Pictory", "InVideo", "Elai", "Rephrase", "Yepic",
                                    "Synthesia", "HeyGen">>
        /\ request.budget \notin {"budget_friendly", "professional"} =>
               /\ response.total_evaluated = 10
               /\ platform_pool = <<"Synthesia", "HeyGen", "Colossyan", "Hour One", "D-ID",
                                    "Movio", "DeepBrain", "Avaturn", "Oxolo", "Pipio">>

\* A request with the empty budget answered with 10 platforms evaluated.
C3_Witness ==
    /\ pc = "done"
    /\ request.budget = ""
    /\ response.total_evaluated = 10
    /\ Len(Returned) = 3

\* The tier the pool selection assigns to a budget value.
PoolTier(budget) ==
    IF budget = "budget_friendly" THEN PLATFORMS.budget
    ELSE IF budget = "professional" THEN PLATFORMS.mid_tier
    ELSE PLATFORMS.enterprise

\* C4: the +10 budget bonus is part of the returned score exactly when the
\* platform is in the tier the pool selection assigns to the budget value
\* (every value other than budget_friendly and professional: enterprise).
C4_BudgetBonusFollowsPoolMapping ==
    ret.returned =>
        ret.score = Clamp(75 + (IF In(arg.platform, PoolTier(request.budget)) THEN 10 ELSE 0)
                             + UseCaseAlignment(arg.platform, request)
                             + TeamSizeConsideration(arg.platform, request)
                             + VolumeRequirements(arg.platform, request)
                             + arg.variance)

NoExtremeDraw == \A k \in 1..Len(draws) : draws[k] \notin {0 - 3, 3}

\* C5: in the social scenario, when no variance drawn is -3 or +3, Fliki,
\* Steve.ai and VEED each stand ahead of Lumen5 and of Vidnoz in the sorted
\* list, and the three returned platforms are Fliki, Steve.ai and VEED.
C5_SocialScenarioOrder ==
    (pc = "done" /\ SocialScenario(request) /\ NoExtremeDraw) =>
        /\ \A a \in {"Fliki", "Steve.ai", "VEED"} : \A b \in {"Lumen5", "Vidnoz"} :
               SortedIndex(a) < SortedIndex(b)
        /\ [i \in 1..Len(Returned) |-> Returned[i].name] = <<"Fliki", "Steve.ai", "VEED">>

\* The social scenario answered after two non-extreme, non-zero draws.
C5_Witness ==
    /\ pc = "done"
    /\ SocialScenario(request)
    /\ NoExtremeDraw
    /\ draws[1] = 0 - 2
    /\ draws[2] = 2

\* C6 as stated: in the training scenario the pool has 10 platforms,
\* Colossyan and Hour One reach 103 before the variance, score exactly 98
\* whatever is drawn, and are both among the returned platforms.
C6_BothReturned ==
    (pc = "done" /\ TrainingScenario(request)) =>
        /\ response.total_evaluated = 10
        /\ \A n \in {"Colossyan", "Hour One"} :
               /\ base_score(n, request) = 103
               /\ ScoreOfName(n) = 98
               /\ n \in ReturnedNames

\* C6 amended: as above, but only Colossyan is always returned; Hour One is
\* returned exactly when Synthesia and HeyGen do not both score 98.
C6_ColossyanReturned ==
    (pc = "done" /\ TrainingScenario(request)) =>
        /\ response.total_evaluated = 10
        /\ \A n \in {"Colossyan", "Hour One"} :
               /\ base_score(n, request) = 103
               /\ ScoreOfName(n) = 98
        /\ "Colossyan" \in ReturnedNames
        /\ "Hour One" \in ReturnedNames
               <=> ~(ScoreOfName("Synthesia") = 98 /\ ScoreOfName("HeyGen") = 98)

\* The training scenario answered without Hour One.
C6_Witness ==
    /\ pc = "done"
    /\ TrainingScenario(request)
    /\ "Colossyan" \in ReturnedNames
    /\ "Hour One" \notin ReturnedNames

\* C7: a returned score is within 3 of the baseline that the same
\* computation gives with variance 0, and that baseline is 75 plus the
\* bonuses that apply, clamped to 60..98.
C7_WithinJitterOfBaseline ==
    ret.returned =>
        LET baseline == calculate_platform_score(arg.platform, request, 0)
        IN  /\ ret.score - baseline <= 3
            /\ baseline - ret.score <= 3
            /\ baseline = Min2(98, Max2(60, base_score(arg.platform, request)))

\* A score that sits the full 3 above its baseline.
C7_Witness ==
    /\ ret.returned
    /\ arg.variance = 3
    /\ ret.score = calculate_platform_score(arg.platform, request, 0) + 3

\* C8: the body is the one the handler gives, under the same draws, to any
\* request that differs only in features and priorities.
C8_FeaturesPrioritiesIgnored ==
    pc = "done" =>
        \A f \in FeatureLists : \A p \in PriorityMaps :
            calculate_matches([request EXCEPT !.features = f, !.priorities = p], draws)
                = response

\* A request with features and a non-zero priority weight, answered.
C8_Witness ==
    /\ pc = "done"
    /\ request.features # <<>>
    /\ request.priorities.quality = 9
    /\ Len(Returned) = 3
    /\ Jittered(draws) = 1

\* C9: every returned entry has an ai_consensus label, "3/3 AIs recommend"
\* exactly when its score is above 90 and "2/3 AIs recommend" otherwise.
C9_ConsensusLabel ==
    pc = "done" =>
        \A i \in 1..Len(Returned) :
            /\ "ai_consensus" \in DOMAIN Returned[i]
            /\ Returned[i].ai_consensus \in {"3/3 AIs recommend", "2/3 AIs recommend"}
            /\ Returned[i].ai_consensus = "3/3 AIs recommend"
                   <=> Returned[i].match_score > 90

\* A body with a score of 91 labelled 3/3 and a score of 90 labelled 2/3.
C9_Witness ==
    /\ pc = "done"
    /\ \E i, j \in 1..Len(Returned) :
           /\ Returned[i].match_score = 91
           /\ Returned[i].ai_consensus = "3/3 AIs recommend"
           /\ Returned[j].match_score = 90
           /\ Returned[j].ai_consensus = "2/3 AIs recommend"

TierFragment(platform) ==
    IF In(platform, PLATFORMS.enterprise)
    THEN "Enterprise-grade features with full team collaboration"
    ELSE IF In(platform, PLATFORMS.mid_tier)
    THEN "Balanced features and pricing for growing teams"
    ELSE IF In(platform, PLATFORMS.budget)
    THEN "Cost-effective solution for individual creators"
    ELSE ""

UseCaseFragment(use_case) ==
    IF use_case = "marketing" THEN "Strong marketing video capabilities"
    ELSE IF use_case = "training" THEN "Excellent for educational and training content"
    ELSE IF use_case = "social" THEN "Optimized for social media content creation"
    ELSE ""

VolumeFragment(volume) ==
    IF volume = "50+" THEN "Handles high-volume production efficiently" ELSE ""

\* The fragments that apply, tier then use case then volume, ". " between.
InOrder(t, u, v) ==
    IF t # "" /\ u # "" /\ v # "" THEN t \o ". " \o u \o ". " \o v
    ELSE IF t # "" /\ u # "" THEN t \o ". " \o u
    ELSE IF t # "" /\ v # "" THEN t \o ". " \o v
    ELSE IF u # "" /\ v # "" THEN u \o ". " \o v
    ELSE IF t # "" THEN t
    ELSE IF u # "" THEN u
    ELSE v

\* C10: the reasoning of every scored platform is its applicable fragments
\* in the order tier, use case, volume; it is empty exactly for a
\* specialized platform under a use case other than marketing, training and
\* social and a volume other than 50+; so every entry returned for a
\* budget_friendly or professional request has a non-empty reasoning.
C10_Reasoning ==
    pc = "done" =>
        /\ \A i \in 1..Len(scored_platforms) :
               LET e == scored_platforms[i]
               IN  /\ e.reasoning = InOrder(TierFragment(e.name),
                                            UseCaseFragment(request.use_case),
                                            VolumeFragment(request.monthly_volume))
                   /\ e.reasoning = ""
                          <=> /\ In(e.name, PLATFORMS.specialized)
                              /\ request.use_case \notin {"marketing", "training", "social"}
                              /\ request.monthly_volume # "50+"
        /\ request.budget \in {"budget_friendly", "professional"} =>
               \A i \in 1..Len(Returned) : Returned[i].reasoning # ""

\* A specialized platform returned with an empty reasoning.
C10_Witness ==
    /\ pc = "done"
    /\ \E i \in 1..Len(Returned) :
           /\ Returned[i].reasoning = ""
           /\ In(Returned[i].name, PLATFORMS.specialized)

====
